---- MODULE Spec2Model ----
(***************************************************************************)
(* A model of the DNS packet cursor of amustaque97/dns-server:             *)
(* BytePacketBuffer (src/src/byte_packet_buffer.rs) and DnsQuestion::read  *)
(* (src/src/dns_question.rs).                                              *)
(*                                                                         *)
(* Bytes are the integers 0..255, strings are sequences of code points,    *)
(* usize values are naturals (no operation of the model gets near 2^64).   *)
(* A Rust panic (an index out of bounds) is the result "Panic".            *)
(***************************************************************************)
EXTENDS Integers, Sequences, FiniteSets, TLC

\* ------------------------------------------------------------------------
\* Program constants
\* ------------------------------------------------------------------------

\* buf: [u8; 512], and the 512 of every bounds check
Cap == 512

\* let max_jumps = 5;
max_jumps == 5

\* 0x3f, the longest label write_qname accepts
MaxLabelLen == 63

\* ------------------------------------------------------------------------
\* Bounds of the model
\* ------------------------------------------------------------------------

\* length of the window of arbitrary bytes in a received packet
WinLen == 3

\* longest chain of compression pointers in a generated packet
MaxChain == 7

\* most labels in a generated name
MaxLabels == 2

\* most cursor operations in one run of the cursor specification
MaxOps == 2

\* ------------------------------------------------------------------------
\* Bytes and strings
\* ------------------------------------------------------------------------

\* x & 0xC0 on a u8: the top two bits
AndC0(x) == (x \div 64) * 64

\* x ^ 0xC0 on a u8: the top two bits flipped
XorC0(x) == (x % 64) + (3 - (x \div 64)) * 64

\* n copies of c
Rep(c, n) == [i \in 1..n |-> c]

\* a UTF-8 lead byte of a two-byte sequence, 0xC2..0xDF
IsLead(b) == b >= 194 /\ b <= 223

\* a UTF-8 continuation byte, 0x80..0xBF
IsCont(b) == b >= 128 /\ b <= 191

\* String::from_utf8_lossy on bytes among which no lead byte is above 0xDF:
\* an ASCII byte is its own code point, a lead byte 0xC2..0xDF followed by
\* a continuation byte is one code point, every other byte is U+FFFD
\* (65533). (No packet of the model holds a lead byte 0xE0..0xF4.)
Utf8Lossy(bs) ==
    LET second(i) == i > 1 /\ IsLead(bs[i - 1]) /\ IsCont(bs[i])
        char(i) ==
            IF second(i) THEN -1
            ELSE IF bs[i] < 128 THEN bs[i]
            ELSE IF IsLead(bs[i]) /\ i < Len(bs) /\ IsCont(bs[i + 1])
                 THEN (bs[i] - 192) * 64 + (bs[i + 1] - 128)
                 ELSE 65533
        keep(c) == c # -1
    IN  SelectSeq([i \in 1..Len(bs) |-> char(i)], keep)

\* char::to_lowercase for code points below U+0100 and for U+FFFD
ToLowerChar(c) ==
    IF c >= 65 /\ c <= 90 THEN c + 32
    ELSE IF c >= 192 /\ c <= 222 /\ c # 215 THEN c + 32
    ELSE c

\* str::to_lowercase
ToLowerStr(s) == [i \in 1..Len(s) |-> ToLowerChar(s[i])]

\* ------------------------------------------------------------------------
\* State
\* ------------------------------------------------------------------------

VARIABLES
    buf,              \* BytePacketBuffer.buf
    pos,              \* BytePacketBuffer.pos, the shared position
    pc,               \* where the running call stands
    caller,           \* who runs read_qname or write_qname: "question" is
                      \* DnsQuestion::read, "roundtrip" a write and read back,
                      \* "cursor" a caller of single operations
    lpos,             \* read_qname: let mut pos (the local position)
    jumped,           \* read_qname: let mut jumped
    jumps_performed,  \* read_qname: let mut jumps_performed
    delim,            \* read_qname: let mut delim
    outstr,           \* read_qname: outstr
    qres,             \* what read_qname returned ("none" while it runs)
    res,              \* what the outer call returned ("none" while it runs)
    touched,          \* the indices of buf the last step read or wrote
    seeks,            \* the calls of seek the running read_qname has made
    firstPtr,         \* offset of the first pointer read_qname met, -1 if none
    lastLen,          \* the last length byte consumed as a label length, -1 if none
    qstart,           \* the shared position when read_qname was entered
    packet,           \* how the received packet was laid out
    qname,            \* write_qname: the argument
    todo,             \* write_qname: the labels the for loop has not reached
    wlabels,          \* the labels the argument of write_qname was made of
    wstart,           \* the shared position when write_qname was entered
    wend,             \* the shared position when write_qname returned
    wres,             \* what write_qname returned
    ops,              \* cursor operations called so far
    allOk,            \* every cursor operation so far returned Ok
    lastOp            \* the last cursor operation: its name, arguments and result

qnVars    == <<lpos, jumped, jumps_performed, delim, outstr, qres,
               seeks, firstPtr, lastLen, qstart>>
wqVars    == <<qname, wlabels, todo, wstart, wend, wres>>
opVars    == <<ops, allOk, lastOp>>
vars      == <<buf, pos, pc, caller, lpos, jumped, jumps_performed, delim,
               outstr, qres, res, touched, seeks, firstPtr, lastLen, qstart,
               packet, qname, wlabels, todo, wstart, wend, wres, ops, allOk,
               lastOp>>

\* ------------------------------------------------------------------------
\* BytePacketBuffer: the primitives
\* ------------------------------------------------------------------------

\* BytePacketBuffer::new
NewBuf == [i \in 0..(Cap - 1) |-> 0]

\* self.buf[i]: the byte, or -1 for the panic of an index out of bounds
Slot(b, i) == IF i \in DOMAIN b THEN b[i] ELSE -1

\* the passing side of read's check, if self.pos >= 512
ReadInBounds(p) == ~(p >= Cap)

\* get's check off by one: if pos > 512
GetInBoundsOffByOne(p) == ~(p > Cap)

\* the passing side of get's check, if pos >= 512
GetInBounds(p) == ~(p >= Cap)

\* the passing side of get_range's check, if start + len >= 512
RangeInBounds(start, len) == ~(start + len >= Cap)

\* the passing side of write's check, if self.pos >= 512
WriteInBounds(p) == ~(p >= Cap)

\* &self.buf[start..start + len]
Slice(b, start, len) == [i \in 1..len |-> Slot(b, start + i - 1)]

\* the indices a sequence of slots came from hold no panic
NoPanic(bs) == \A i \in 1..Len(bs) : bs[i] # -1

\* step: self.pos += steps; Ok(())
StepPos(p, steps) == p + steps

\* read: one byte at the shared position
Read(b, p) ==
    IF ~ReadInBounds(p)
    THEN [res |-> "EndOfBuffer", pos |-> p, val |-> 0, touched |-> {}]
    ELSE IF Slot(b, p) = -1
    THEN [res |-> "Panic", pos |-> p, val |-> 0, touched |-> {p}]
    ELSE [res |-> "Ok", pos |-> p + 1, val |-> Slot(b, p), touched |-> {p}]

\* get: one byte at a given position
Get(b, p) ==
    IF ~GetInBounds(p)
    THEN [res |-> "EndOfBuffer", val |-> 0, touched |-> {}]
    ELSE IF Slot(b, p) = -1
    THEN [res |-> "Panic", val |-> 0, touched |-> {p}]
    ELSE [res |-> "Ok", val |-> Slot(b, p), touched |-> {p}]

\* get_range: the bytes at [start, start + len)
GetRange(b, start, len) ==
    IF ~RangeInBounds(start, len)
    THEN [res |-> "EndOfBuffer", val |-> <<>>, touched |-> {}]
    ELSE IF ~NoPanic(Slice(b, start, len))
    THEN [res |-> "Panic", val |-> <<>>, touched |-> start..(start + len - 1)]
    ELSE [res |-> "Ok", val |-> Slice(b, start, len),
          touched |-> start..(start + len - 1)]

\* read_u16: two reads, the first is the high byte; a failing read returns
\* with the position where the reads before it left it
ReadU16(b, p) ==
    LET r1 == Read(b, p)
        r2 == Read(b, r1.pos)
    IN  IF r1.res # "Ok" THEN r1
        ELSE IF r2.res # "Ok"
        THEN [r2 EXCEPT !.touched = r1.touched \cup r2.touched]
        ELSE [res |-> "Ok", pos |-> r2.pos,
              val |-> ((r1.val * 256) % 65536) + r2.val,
              touched |-> r1.touched \cup r2.touched]

\* read_u32: four reads, big-endian; the u32 is kept as its two 16-bit
\* halves, the high one first (it need not fit the model checker's integers)
ReadU32(b, p) ==
    LET h == ReadU16(b, p)
        l == ReadU16(b, h.pos)
    IN  IF h.res # "Ok" THEN h
        ELSE IF l.res # "Ok"
        THEN [l EXCEPT !.touched = h.touched \cup l.touched]
        ELSE [res |-> "Ok", pos |-> l.pos, val |-> <<h.val, l.val>>,
              touched |-> h.touched \cup l.touched]

\* write: one byte at the shared position
Write(b, p, val) ==
    IF ~WriteInBounds(p)
    THEN [res |-> "EndOfBuffer", buf |-> b, pos |-> p, touched |-> {}]
    ELSE IF p \notin DOMAIN b
    THEN [res |-> "Panic", buf |-> b, pos |-> p, touched |-> {p}]
    ELSE [res |-> "Ok", buf |-> [b EXCEPT ![p] = val], pos |-> p + 1,
          touched |-> {p}]

\* a run of write_u8 calls, each with ?: the bytes are written in order up to
\* the first write that fails
WriteBytes(b, p, bytes) ==
    LET n == Cardinality({ k \in 1..Len(bytes) :
                            \A m \in 1..k : WriteInBounds(p + m - 1) })
        last == Write(b, p + n, 0)
    IN  [res |-> IF n = Len(bytes) THEN "Ok" ELSE last.res,
         buf |-> [i \in DOMAIN b |->
                    IF i >= p /\ i < p + n THEN bytes[i - p + 1] ELSE b[i]],
         pos |-> p + n,
         touched |-> p..(p + n - 1)]

\* write_u16: (val >> 8) as u8, then (val & 0xFF) as u8
WriteU16(b, p, val) == WriteBytes(b, p, <<(val \div 256) % 256, val % 256>>)

\* write_u32: the four bytes, the highest first; val is the u32 as its two
\* 16-bit halves
WriteU32(b, p, val) ==
    WriteBytes(b, p, <<(val[1] \div 256) % 256, val[1] % 256,
                       (val[2] \div 256) % 256, val[2] % 256>>)

\* set: self.buf[pos] = val, no check
Set(b, at, val) ==
    IF at \notin DOMAIN b
    THEN [res |-> "Panic", buf |-> b, touched |-> {at}]
    ELSE [res |-> "Ok", buf |-> [b EXCEPT ![at] = val], touched |-> {at}]

\* set_u16: set(pos, high)?; set(pos + 1, low)?
SetU16(b, at, val) ==
    LET s1 == Set(b, at, (val \div 256) % 256)
        s2 == Set(s1.buf, at + 1, val % 256)
    IN  IF s1.res # "Ok" THEN s1
        ELSE [s2 EXCEPT !.touched = s1.touched \cup s2.touched]

\* ------------------------------------------------------------------------
\* BytePacketBuffer::read_qname
\* ------------------------------------------------------------------------

\* the jump check off by one: if jumps_performed >= max_jumps
JumpLimitExceededEarly(n) == n >= max_jumps

\* if jumps_performed > max_jumps
JumpLimitExceeded(n) == n > max_jumps

\* the pointer test as a comparison that misses 0xC0 itself: len > 0xC0
IsPointerAbove(len) == len > 192

\* (len & 0xC0) == 0xC0
IsPointer(len) == AndC0(len) = 192

\* the target without the two marker bits cleared: ((len as u16) << 8) | b2
PointerTargetUnmasked(len, b2) == ((len * 256) % 65536) + b2

\* (((len as u16) ^ 0xC0) << 8) | b2, as usize
PointerTarget(len, b2) == ((XorC0(len) * 256) % 65536) + b2

\* the seek at a pointer without its guard: self.seek(pos + 2)? at every jump
SeekPastEveryPointer(j, shared, local) == local + 2

\* if !jumped { self.seek(pos + 2)?; }: the shared position after it
SeekPastPointer(j, shared, local) == IF ~j THEN local + 2 ELSE shared

\* the seeks that statement makes
SeeksAtPointer(j) == IF ~j THEN 1 ELSE 0

\* if !jumped { self.seek(pos)?; } after the loop
SeekAtEnd(j, shared, local) == IF ~j THEN local ELSE shared

\* outstr.push_str(&String::from_utf8_lossy(str_buffer).to_lowercase())
DecodeLabel(bytes) == ToLowerStr(Utf8Lossy(bytes))

\* delim = "."
Dot == <<46>>

\* the entry of read_qname with the shared position at p: the locals before
\* the loop
EnterReadQname(who, p) ==
    /\ caller' = who
    /\ lpos' = p
    /\ jumped' = FALSE
    /\ jumps_performed' = 0
    /\ delim' = <<>>
    /\ outstr' = <<>>
    /\ qres' = "none"
    /\ seeks' = 0
    /\ firstPtr' = -1
    /\ lastLen' = -1
    /\ qstart' = p
    /\ pc' = "qname"

\* read_qname returns r
QnameReturns(r) ==
    /\ qres' = r
    /\ pc' = "qname_ret"

\* one iteration of the loop of read_qname (and, on break, the code after it)
ReadQnameStep ==
    /\ pc = "qname"
    /\ LET g == Get(buf, lpos)
           len == g.val
           g2 == Get(buf, lpos + 1)
           rng == GetRange(buf, lpos + 1, len)
       IN
       IF JumpLimitExceeded(jumps_performed)
       THEN /\ QnameReturns("JumpLimit")
            /\ touched' = {}
            /\ UNCHANGED <<pos, lpos, jumped, jumps_performed, delim, outstr,
                           seeks, firstPtr, lastLen>>
       ELSE IF g.res # "Ok"
       THEN /\ QnameReturns(g.res)
            /\ touched' = g.touched
            /\ UNCHANGED <<pos, lpos, jumped, jumps_performed, delim, outstr,
                           seeks, firstPtr, lastLen>>
       ELSE IF IsPointer(len)
       THEN /\ pos' = SeekPastPointer(jumped, pos, lpos)
            /\ seeks' = seeks + SeeksAtPointer(jumped)
            /\ firstPtr' = IF firstPtr = -1 THEN lpos ELSE firstPtr
            /\ touched' = g.touched \cup g2.touched
            /\ IF g2.res # "Ok"
               THEN /\ QnameReturns(g2.res)
                    /\ UNCHANGED <<lpos, jumped, jumps_performed>>
               ELSE /\ lpos' = PointerTarget(len, g2.val)
                    /\ jumped' = TRUE
                    /\ jumps_performed' = jumps_performed + 1
                    /\ UNCHANGED <<pc, qres>>
            /\ UNCHANGED <<delim, outstr, lastLen>>
       ELSE IF len = 0
       THEN /\ lpos' = lpos + 1
            /\ pos' = SeekAtEnd(jumped, pos, lpos + 1)
            /\ seeks' = seeks + (IF ~jumped THEN 1 ELSE 0)
            /\ QnameReturns("Ok")
            /\ touched' = g.touched
            /\ UNCHANGED <<jumped, jumps_performed, delim, outstr, firstPtr,
                           lastLen>>
       ELSE /\ lastLen' = len
            /\ touched' = g.touched \cup rng.touched
            /\ IF rng.res # "Ok"
               THEN /\ lpos' = lpos + 1
                    /\ outstr' = outstr \o delim
                    /\ QnameReturns(rng.res)
                    /\ UNCHANGED delim
               ELSE /\ lpos' = lpos + 1 + len
                    /\ outstr' = outstr \o delim \o DecodeLabel(rng.val)
                    /\ delim' = Dot
                    /\ UNCHANGED <<pc, qres>>
            /\ UNCHANGED <<pos, jumped, jumps_performed, seeks, firstPtr>>
    /\ UNCHANGED <<buf, caller, res, qstart, packet, wqVars, opVars>>

\* ------------------------------------------------------------------------
\* BytePacketBuffer::write_qname
\* ------------------------------------------------------------------------

\* qname.split('.'): the pieces between the dots, as many as dots plus one
Split(str) ==
    LET dots == { i \in 1..Len(str) : str[i] = 46 }
        dot(k) == IF k = 0 THEN 0
                  ELSE IF k > Cardinality(dots) THEN Len(str) + 1
                  ELSE CHOOSE i \in dots :
                         Cardinality({ j \in dots : j < i }) = k - 1
    IN  [k \in 1..(Cardinality(dots) + 1) |->
            SubSeq(str, dot(k - 1) + 1, dot(k) - 1)]

\* the length check off by one: if len > 0x40
LabelTooLongOffByOne(len) == len > MaxLabelLen + 1

\* if len > 0x3f
LabelTooLong(len) == len > MaxLabelLen

\* the loop body without its write_u8(len as u8)
EncodedLabelNoLength(label) == label

\* what the loop body writes for a label: write_u8(len as u8), then
\* write_u8 of each byte (the names of the model are ASCII: label.as_bytes()
\* is the label's code points)
EncodedLabel(label) == <<Len(label) % 256>> \o label

\* the entry of write_qname
EnterWriteQname(who, str) ==
    /\ caller' = who
    /\ qname' = str
    /\ todo' = Split(str)
    /\ wstart' = pos
    /\ wend' = pos
    /\ wres' = "none"
    /\ pc' = "wq"

\* write_qname returns r with the shared position at p
WriteQnameReturns(r, p) ==
    /\ wres' = r
    /\ wend' = p
    /\ pc' = "wq_ret"

\* one iteration of the for loop of write_qname, or, after the last label,
\* self.write_u8(0)?; Ok(())
WriteQnameStep ==
    /\ pc = "wq"
    /\ IF todo = <<>>
       THEN LET w == Write(buf, pos, 0) IN
            /\ buf' = w.buf
            /\ pos' = w.pos
            /\ touched' = w.touched
            /\ WriteQnameReturns(w.res, w.pos)
            /\ UNCHANGED todo
       ELSE IF LabelTooLong(Len(Head(todo)))
       THEN /\ WriteQnameReturns("LabelTooLong", pos)
            /\ touched' = {}
            /\ UNCHANGED <<buf, pos, todo>>
       ELSE LET w == WriteBytes(buf, pos, EncodedLabel(Head(todo))) IN
            /\ buf' = w.buf
            /\ pos' = w.pos
            /\ touched' = w.touched
            /\ IF w.res # "Ok"
               THEN /\ WriteQnameReturns(w.res, w.pos)
                    /\ UNCHANGED todo
               ELSE /\ todo' = Tail(todo)
                    /\ UNCHANGED <<pc, wres, wend>>
    /\ UNCHANGED <<caller, qnVars, res, packet, qname, wlabels, wstart, opVars>>

\* ------------------------------------------------------------------------
\* DnsQuestion::read
\* ------------------------------------------------------------------------

\* line 18: the call of read_qname
QuestionReadName ==
    /\ pc = "received"
    /\ EnterReadQname("question", pos)
    /\ touched' = {}
    /\ UNCHANGED <<buf, pos, res, packet, wqVars, opVars>>

\* line 18, the return of read_qname: the statement is
\* buffer.read_qname(&mut self.name); with no ? on it, so whatever Result
\* comes back is dropped; and line 19: buffer.read_u16()? for the type
QuestionReadType ==
    /\ pc = "qname_ret"
    /\ caller = "question"
    /\ LET r == ReadU16(buf, pos) IN
       /\ pos' = r.pos
       /\ touched' = r.touched
       /\ IF r.res # "Ok"
          THEN /\ res' = r.res
               /\ pc' = "done"
          ELSE /\ pc' = "q_class"
               /\ UNCHANGED res
    /\ UNCHANGED <<buf, caller, qnVars, packet, wqVars, opVars>>

\* lines 20-21: buffer.read_u16()? for the class, then Ok(())
QuestionReadClass ==
    /\ pc = "q_class"
    /\ LET r == ReadU16(buf, pos) IN
       /\ pos' = r.pos
       /\ touched' = r.touched
       /\ res' = r.res
    /\ pc' = "done"
    /\ UNCHANGED <<buf, caller, qnVars, packet, wqVars, opVars>>

\* ------------------------------------------------------------------------
\* The packets a decode is run on
\* ------------------------------------------------------------------------

\* a packet is segments of bytes at offsets of a zeroed buffer, and the
\* position the decode of the name starts at
BufOf(segs) ==
    [i \in 0..(Cap - 1) |->
        IF \E k \in 1..Len(segs) :
              i >= segs[k].at /\ i < segs[k].at + Len(segs[k].bytes)
        THEN LET k == CHOOSE k \in 1..Len(segs) :
                        i >= segs[k].at /\ i < segs[k].at + Len(segs[k].bytes)
             IN segs[k].bytes[i - segs[k].at + 1]
        ELSE 0]

\* the two bytes of a compression pointer to offset t < 16384
PointerTo(t) == <<192 + (t \div 256), t % 256>>

\* a label on the wire: its length byte, then its bytes
WireLabel(l) == <<Len(l)>> \o l

\* labels on the wire, one after the other, without the terminator
RECURSIVE WireLabels(_)
WireLabels(ls) ==
    IF ls = <<>> THEN <<>> ELSE WireLabel(Head(ls)) \o WireLabels(Tail(ls))

\* the labels joined by single dots
RECURSIVE DotJoin(_)
DotJoin(ls) ==
    IF ls = <<>> THEN <<>>
    ELSE IF Len(ls) = 1 THEN Head(ls)
    ELSE Head(ls) \o Dot \o DotJoin(Tail(ls))

\* the labels of the generated names: "www", "Go", "c"
SmallLabels == { <<119, 119, 119>>, <<71, 111>>, <<99>> }

\* sequences of lo..hi labels
LabelSeqs(lo, hi) == UNION { [1..n -> SmallLabels] : n \in lo..hi }

\* where the windows of arbitrary bytes lie: the start and the end of buf
WindowBases == {0, Cap - WinLen}

\* the bytes of a window: terminator, a short length, a length with top
\* bits 01 (also 'A'), one with top bits 10, the pointer byte to the
\* window's own 256 offsets, the pointer byte to 512 and above, and the low
\* bytes of the window's offsets
WindowBytes(base) ==
    {0, 1, 65, 191, 192 + (base \div 256), 194}
        \cup { (base + i) % 256 : i \in 0..(WinLen - 1) }

\* a window of arbitrary bytes, the decode starts at its first byte
RawPackets ==
    UNION { { [kind |-> "raw", segs |-> << [at |-> base, bytes |-> w] >>,
               start |-> base, labels |-> <<>>] :
                w \in [1..WinLen -> WindowBytes(base)] } : base \in WindowBases }

\* a zeroed buffer, the decode starts at its last byte, at its end or past it
EdgePackets ==
    { [kind |-> "edge", segs |-> <<>>, start |-> s, labels |-> <<>>] :
        s \in {Cap - 1, Cap, Cap + 1} }

\* n pointers one after the other from offset base on, each to the next,
\* the last one to pointer j of them (a cycle) 
LoopPackets ==
    UNION { { [kind |-> "loop",
               segs |-> << [at |-> base,
                            bytes |-> [i \in 1..(2 * n) |->
                                PointerTo(IF (i + 1) \div 2 < n
                                          THEN base + 2 * ((i + 1) \div 2)
                                          ELSE base + 2 * j)[2 - (i % 2)]]] >>,
               start |-> base, labels |-> <<>>] :
                j \in 0..(n - 1), base \in {0, Cap - 2 * n} } : n \in 1..MaxChain }

\* n pointers one after the other from offset base on, each to the next,
\* the last one to a name stored at offset at
ChainPackets ==
    UNION { { [kind |-> "chain",
               segs |-> << [at |-> base,
                            bytes |-> [i \in 1..(2 * n) |->
                                PointerTo(IF (i + 1) \div 2 < n
                                          THEN base + 2 * ((i + 1) \div 2)
                                          ELSE at)[2 - (i % 2)]]],
                           [at |-> at, bytes |-> WireLabels(ls) \o <<0>>] >>,
               start |-> base, labels |-> ls] :
                base \in {20}, at \in {12, 300}, ls \in LabelSeqs(1, 1) } :
            n \in 1..MaxChain }

\* a name stored in full at offset at, and at offset site some leading
\* labels followed by a pointer to label j of the stored name; labels is
\* the label sequence the site stands for
CompressedPackets ==
    UNION { { [kind |-> "compressed",
               segs |-> << [at |-> at, bytes |-> WireLabels(full) \o <<0>>],
                           [at |-> 200,
                            bytes |-> WireLabels(lead) \o
                                PointerTo(at + Len(WireLabels(SubSeq(full, 1, j - 1))))] >>,
               start |-> 200,
               labels |-> lead \o SubSeq(full, j, Len(full))] :
                j \in 1..Len(full),
                at \in {12, Cap - Len(WireLabels(full)) - 1} } :
            full \in LabelSeqs(1, MaxLabels), lead \in LabelSeqs(0, 2) }

\* a name stored in full and read directly
PlainPackets ==
    UNION { { [kind |-> "plain",
               segs |-> << [at |-> at, bytes |-> WireLabels(full) \o <<0>>] >>,
               start |-> at, labels |-> full] :
                at \in {12, Cap - Len(WireLabels(full)) - 1} } :
            full \in LabelSeqs(1, MaxLabels) }

Packets ==
    RawPackets \cup EdgePackets \cup LoopPackets \cup ChainPackets
        \cup CompressedPackets \cup PlainPackets

\* ------------------------------------------------------------------------
\* The decode of a question from a received packet
\* ------------------------------------------------------------------------

\* BytePacketBuffer::new(), nothing called yet
Init ==
    /\ buf = NewBuf
    /\ pos = 0
    /\ pc = "new"
    /\ caller = "none"
    /\ lpos = 0
    /\ jumped = FALSE
    /\ jumps_performed = 0
    /\ delim = <<>>
    /\ outstr = <<>>
    /\ qres = "none"
    /\ res = "none"
    /\ touched = {}
    /\ seeks = 0
    /\ firstPtr = -1
    /\ lastLen = -1
    /\ qstart = 0
    /\ packet = [kind |-> "none", segs |-> <<>>, start |-> 0, labels |-> <<>>]
    /\ qname = <<>>
    /\ wlabels = <<>>
    /\ todo = <<>>
    /\ wstart = 0
    /\ wend = 0
    /\ wres = "none"
    /\ ops = 0
    /\ allOk = TRUE
    /\ lastOp = [op |-> "none", a |-> 0, b |-> 0, res |-> "none", val |-> <<>>]

\* socket.recv_from(&mut res_buffer.buf): the buffer is filled with bytes
\* from the network; the position is where the decode of the name starts
Recv ==
    /\ pc = "new"
    /\ \E p \in Packets :
        /\ packet' = p
        /\ buf' = BufOf(p.segs)
        /\ pos' = p.start
    /\ pc' = "received"
    /\ touched' = {}
    /\ UNCHANGED <<caller, qnVars, res, wqVars, opVars>>

NextDecode ==
    \/ Recv
    \/ QuestionReadName
    \/ ReadQnameStep
    \/ QuestionReadType
    \/ QuestionReadClass

SpecDecode == Init /\ [][NextDecode]_vars

\* ------------------------------------------------------------------------
\* A name written and read back
\* ------------------------------------------------------------------------

\* the labels of the written names: "", "a", "Bc", and labels of 63 and of
\* 64 bytes
WrittenLabels == { <<>>, <<97>>, <<66, 99>>, Rep(88, 63), Rep(89, 64) }

\* names that fill the buffer: seven labels of 63 bytes and one of 62 (the
\* terminator is the last byte of the buffer) or of 63 (it does not fit)
FillingLabels ==
    { [i \in 1..8 |-> IF i < 8 THEN Rep(88, 63) ELSE Rep(120, n)] : n \in {62, 63} }

\* the label sequences names are made of
NameLabels ==
    UNION { [1..n -> WrittenLabels] : n \in 1..MaxLabels } \cup FillingLabels

\* where a name is written: at the start of the buffer, after a 12-byte
\* header
WriteStarts == {0, 12}

\* self.pos += steps, to where the name is to be written
SkipHeader ==
    /\ pc = "new"
    /\ \E n \in WriteStarts \ {0} : pos' = StepPos(pos, n)
    /\ pc' = "at_name"
    /\ touched' = {}
    /\ UNCHANGED <<buf, caller, qnVars, res, packet, wqVars, opVars>>

\* the call of write_qname on the fresh buffer
WriteName ==
    /\ pc \in {"new", "at_name"}
    /\ \E ls \in NameLabels :
        /\ wlabels' = ls
        /\ EnterWriteQname("roundtrip", DotJoin(ls))
    /\ touched' = {}
    /\ UNCHANGED <<buf, pos, qnVars, res, packet, opVars>>

\* the position is set back to where the name was written, and read_qname
\* is called with an empty string
ReadBack ==
    /\ pc = "wq_ret"
    /\ caller = "roundtrip"
    /\ pos' = wstart
    /\ EnterReadQname("roundtrip", wstart)
    /\ touched' = {}
    /\ UNCHANGED <<buf, res, packet, wqVars, opVars>>

NextEncode ==
    \/ SkipHeader
    \/ WriteName
    \/ WriteQnameStep
    \/ ReadBack
    \/ ReadQnameStep

SpecEncode == Init /\ [][NextEncode]_vars

\* ------------------------------------------------------------------------
\* A caller of single cursor operations
\* ------------------------------------------------------------------------

\* the arguments the operations are called with
StepSizes   == {1, 2, 510, 512, 513}
RangeStarts == {0, 500, 509, 510, 512}
RangeLens   == {0, 2, 3, 12}
ByteVals    == {1, 255}
WordVals    == {258, 65535}
LongVals    == { <<258, 772>>, <<65535, 65535>> }
SetOffsets  == {0, 510, 511, 512}
CursorNames == { <<97>>, <<66, 99, 46, 97>>, Rep(89, 64) }

\* the caller may call an operation: nothing runs, none has panicked, and
\* the run has operations left
MayCall == pc \in {"new", "idle"} /\ ops < MaxOps

\* an operation returned r: Ok and errors go back to the caller, a panic
\* ends the program
Returned(name, a, b, r, val) ==
    /\ lastOp' = [op |-> name, a |-> a, b |-> b, res |-> r, val |-> val]
    /\ ops' = ops + 1
    /\ allOk' = (allOk /\ r = "Ok")
    /\ pc' = IF r = "Panic" THEN "panicked" ELSE "idle"

OpStep ==
    /\ MayCall
    /\ \E n \in StepSizes :
        /\ pos' = StepPos(pos, n)
        /\ Returned("step", n, 0, "Ok", <<>>)
    /\ touched' = {}
    /\ UNCHANGED <<buf, caller, qnVars, res, packet, wqVars>>

OpRead ==
    /\ MayCall
    /\ \E r \in {Read(buf, pos)} :
        /\ pos' = r.pos
        /\ touched' = r.touched
        /\ Returned("read", 0, 0, r.res, <<r.val>>)
    /\ UNCHANGED <<buf, caller, qnVars, res, packet, wqVars>>

OpReadU16 ==
    /\ MayCall
    /\ \E r \in {ReadU16(buf, pos)} :
        /\ pos' = r.pos
        /\ touched' = r.touched
        /\ Returned("read_u16", 0, 0, r.res, <<r.val>>)
    /\ UNCHANGED <<buf, caller, qnVars, res, packet, wqVars>>

OpReadU32 ==
    /\ MayCall
    /\ \E r \in {ReadU32(buf, pos)} :
        /\ pos' = r.pos
        /\ touched' = r.touched
        /\ Returned("read_u32", 0, 0, r.res, r.val)
    /\ UNCHANGED <<buf, caller, qnVars, res, packet, wqVars>>

OpGetRange ==
    /\ MayCall
    /\ \E start \in RangeStarts, len \in RangeLens :
        \E r \in {GetRange(buf, start, len)} :
            /\ touched' = r.touched
            /\ Returned("get_range", start, len, r.res, r.val)
    /\ UNCHANGED <<buf, pos, caller, qnVars, res, packet, wqVars>>

\* write, and write_u8, which is write(val)?; Ok(())
OpWrite ==
    /\ MayCall
    /\ \E v \in ByteVals :
        \E w \in {Write(buf, pos, v)} :
            /\ buf' = w.buf
            /\ pos' = w.pos
            /\ touched' = w.touched
            /\ Returned("write", v, 0, w.res, <<>>)
    /\ UNCHANGED <<caller, qnVars, res, packet, wqVars>>

OpWriteU16 ==
    /\ MayCall
    /\ \E v \in WordVals :
        \E w \in {WriteU16(buf, pos, v)} :
            /\ buf' = w.buf
            /\ pos' = w.pos
            /\ touched' = w.touched
            /\ Returned("write_u16", v, 0, w.res, <<>>)
    /\ UNCHANGED <<caller, qnVars, res, packet, wqVars>>

OpWriteU32 ==
    /\ MayCall
    /\ \E v \in LongVals :
        \E w \in {WriteU32(buf, pos, v)} :
            /\ buf' = w.buf
            /\ pos' = w.pos
            /\ touched' = w.touched
            /\ Returned("write_u32", v, 0, w.res, <<>>)
    /\ UNCHANGED <<caller, qnVars, res, packet, wqVars>>

OpSet ==
    /\ MayCall
    /\ \E at \in SetOffsets, v \in ByteVals :
        \E w \in {Set(buf, at, v)} :
            /\ buf' = w.buf
            /\ touched' = w.touched
            /\ Returned("set", at, v, w.res, <<>>)
    /\ UNCHANGED <<pos, caller, qnVars, res, packet, wqVars>>

OpSetU16 ==
    /\ MayCall
    /\ \E at \in SetOffsets, v \in WordVals :
        \E w \in {SetU16(buf, at, v)} :
            /\ buf' = w.buf
            /\ touched' = w.touched
            /\ Returned("set_u16", at, v, w.res, <<>>)
    /\ UNCHANGED <<pos, caller, qnVars, res, packet, wqVars>>

\* the call of read_qname, which then runs by ReadQnameStep
OpReadQname ==
    /\ MayCall
    /\ EnterReadQname("cursor", pos)
    /\ touched' = {}
    /\ UNCHANGED <<buf, pos, res, packet, wqVars, opVars>>

\* read_qname goes back to the caller
OpReadQnameReturns ==
    /\ pc = "qname_ret"
    /\ caller = "cursor"
    /\ Returned("read_qname", 0, 0, qres, outstr)
    /\ touched' = {}
    /\ UNCHANGED <<buf, pos, caller, qnVars, res, packet, wqVars>>

\* the call of write_qname, which then runs by WriteQnameStep
OpWriteQname ==
    /\ MayCall
    /\ \E str \in CursorNames :
        /\ EnterWriteQname("cursor", str)
        /\ wlabels' = Split(str)
    /\ touched' = {}
    /\ UNCHANGED <<buf, pos, qnVars, res, packet, opVars>>

\* write_qname goes back to the caller
OpWriteQnameReturns ==
    /\ pc = "wq_ret"
    /\ caller = "cursor"
    /\ Returned("write_qname", 0, 0, wres, <<>>)
    /\ touched' = {}
    /\ UNCHANGED <<buf, pos, caller, qnVars, res, packet, wqVars>>

NextCursor ==
    \/ OpStep
    \/ OpRead
    \/ OpReadU16
    \/ OpReadU32
    \/ OpGetRange
    \/ OpWrite
    \/ OpWriteU16
    \/ OpWriteU32
    \/ OpSet
    \/ OpSetU16
    \/ OpReadQname
    \/ OpReadQnameReturns
    \/ OpWriteQname
    \/ OpWriteQnameReturns
    \/ ReadQnameStep
    \/ WriteQnameStep

SpecCursor == Init /\ [][NextCursor]_vars

\* ------------------------------------------------------------------------
\* The program: a buffer is made, and then a packet is received and a
\* question decoded from it, or a name is written and read back, or single
\* operations are called
\* ------------------------------------------------------------------------

Next == NextDecode \/ NextEncode \/ NextCursor

Spec == Init /\ [][Next]_vars

\* ------------------------------------------------------------------------
\* Properties of the decode
\* ------------------------------------------------------------------------

\* read_qname has just returned: nothing has moved the position since
JustReturned == pc = "qname_ret"

\* the pointers from offset p on form a cycle: every offset of the chain
\* holds a whole pointer and one of them is reached twice
RECURSIVE CyclicFrom(_, _, _)
CyclicFrom(b, p, seen) ==
    IF p \in seen THEN TRUE
    ELSE IF ~(p >= 0 /\ p + 1 < Cap) THEN FALSE
    ELSE IF b[p] < 192 THEN FALSE
    ELSE CyclicFrom(b, (b[p] - 192) * 256 + b[p + 1], seen \cup {p})

\* read_qname was started on a cyclic chain of pointers
OnCycle == caller = "question" /\ CyclicFrom(buf, qstart, {})

\* the offset past the terminating zero byte of a name without pointers
RECURSIVE NameEnd(_, _)
NameEnd(b, p) == IF b[p] = 0 THEN p + 1 ELSE NameEnd(b, p + 1 + b[p])

\* the offset of the first pointer of a name, -1 when it has none
RECURSIVE FirstPointer(_, _)
FirstPointer(b, p) ==
    IF b[p] >= 192 THEN p
    ELSE IF b[p] = 0 THEN -1
    ELSE FirstPointer(b, p + 1 + b[p])

\* the name a sequence of labels stands for
ExpectedName(ls) == ToLowerStr(DotJoin(ls))

\* C1, as claimed: started on a cyclic chain of pointers, read_qname returns
\* the jump-limit error having followed at most 5 pointers.
C1_AtMostFiveJumps ==
    (OnCycle /\ JustReturned) => (qres = "JumpLimit" /\ jumps_performed <= 5)

\* C1, amended: started on a cyclic chain of pointers, read_qname never
\* follows more than 6 pointers; every iteration of its loop either follows
\* one more pointer or returns, so it returns at the 7th iteration at the
\* latest; and when it returns it returns the jump-limit error, having
\* followed exactly 6 pointers.
C1_CycleGuard ==
    /\ [](OnCycle => /\ jumps_performed <= 6
                     /\ (JustReturned =>
                            (qres = "JumpLimit" /\ jumps_performed = 6)))
    /\ [][(OnCycle /\ pc = "qname") =>
            \/ (pc' = "qname" /\ jumps_performed' = jumps_performed + 1)
            \/ (pc' = "qname_ret" /\ qres' = "JumpLimit")]_vars

\* a cycle of two or more pointers was followed 6 times and refused
C1_Witness ==
    /\ OnCycle
    /\ JustReturned
    /\ qres = "JumpLimit"
    /\ jumps_performed = 6
    /\ packet.kind = "loop"
    /\ Len(packet.segs[1].bytes) >= 4

\* C2: when read_qname fails inside DnsQuestion::read, read does not go on
\* to the class field and returns an error.
C2_NameFailureAborts ==
    (caller = "question" /\ qres \notin {"none", "Ok"}) =>
        /\ pc # "q_class"
        /\ (pc = "done" => res # "Ok")

\* C3: every index of buf a step of the decode accesses lies in 0..511, no
\* access panics, and read_qname returns Ok only for a name that ends inside
\* the buffer (a length, a label or a pointer target that does not is an
\* error).
C3_MemorySafe ==
    /\ touched \subseteq 0..511
    /\ qres # "Panic"
    /\ res # "Panic"
    /\ (JustReturned /\ qres = "Ok") => (lpos <= 512 /\ pos <= 512)

\* a pointer to offset 512 or above was followed and refused with no access
C3_Witness ==
    /\ JustReturned
    /\ qres = "EndOfBuffer"
    /\ jumped
    /\ lpos >= 512
    /\ touched = {}

\* C6: when read_qname returns Ok it has called seek exactly once; the
\* shared position is 2 past the first pointer of the name if it has one,
\* and past the terminating zero byte if it has none.
C6_SharedPosition ==
    (JustReturned /\ qres = "Ok") =>
        /\ seeks = 1
        /\ firstPtr = FirstPointer(buf, qstart)
        /\ IF firstPtr # -1
           THEN pos = firstPtr + 2
           ELSE pos = NameEnd(buf, qstart)

\* a name that begins with a pointer and holds a second one
C6_Witness ==
    /\ JustReturned
    /\ qres = "Ok"
    /\ jumps_performed >= 2
    /\ firstPtr = qstart
    /\ pos = qstart + 2
    /\ lpos # pos

\* C7: read at a site that holds leading labels and a pointer to a suffix
\* of a name stored elsewhere, read_qname yields the labels of the site and
\* of the suffix, lowercased, joined by single dots; read directly, a stored
\* name yields the same for its own labels.
C7_CompressionTransparent ==
    (JustReturned /\ packet.kind \in {"compressed", "plain"}) =>
        /\ qres = "Ok"
        /\ outstr = ExpectedName(packet.labels)

\* "www" and a pointer to "Go.c" give "www.go.c"
C7_Witness ==
    /\ JustReturned
    /\ packet.kind = "compressed"
    /\ qres = "Ok"
    /\ jumps_performed = 1
    /\ packet.labels = << <<119, 119, 119>>, <<71, 111>>, <<99>> >>
    /\ outstr = <<119, 119, 119, 46, 103, 111, 46, 99>>

\* C10, as claimed: a length byte consumed as a label length is at most 63.
C10_AtMost63 == lastLen # -1 => lastLen <= 63

\* C10, amended: a length byte consumed as a label length is one whose top
\* two bits are not both set, 1..191.
C10_LabelLength == lastLen # -1 => (lastLen >= 1 /\ lastLen <= 191)

\* a length byte of 191 was consumed and its 191 bytes appended
C10_Witness ==
    /\ lastLen = 191
    /\ pc = "qname"
    /\ Len(outstr) = 191

\* ------------------------------------------------------------------------
\* Properties of a name written and read back
\* ------------------------------------------------------------------------

\* the name has one or more labels, none empty: it is not empty, no dot is
\* first or last or follows a dot
NoEmptyLabel(str) ==
    /\ Len(str) >= 1
    /\ str[1] # 46
    /\ str[Len(str)] # 46
    /\ \A i \in 1..(Len(str) - 1) : ~(str[i] = 46 /\ str[i + 1] = 46)

\* no label of the name is longer than 63: 64 characters in a row hold a dot
NoLongLabel(str) ==
    \A i \in 1..(Len(str) - 63) : \E j \in i..(i + 63) : str[j] = 46

\* the bytes of buf from offset from up to offset to
BufBytes(from, to) == [i \in 1..(to - from) |-> buf[from + i - 1]]

\* the index of the first label of 64 or more bytes, 0 when there is none
FirstLong(ls) ==
    IF \A k \in 1..Len(ls) : Len(ls[k]) <= 63 THEN 0
    ELSE CHOOSE k \in 1..Len(ls) :
            Len(ls[k]) >= 64 /\ \A m \in 1..(k - 1) : Len(ls[m]) <= 63

\* C8: a name of non-empty labels of at most 63 bytes whose encoding (the
\* name, one length byte more and the terminator) fits in the buffer is
\* written with Ok; read back from where it was written, read_qname
\* returns Ok with the lowercased name and ends where the write ended.
C8_RoundTrip ==
    (/\ caller = "roundtrip"
     /\ NoEmptyLabel(qname)
     /\ NoLongLabel(qname)
     /\ wstart + Len(qname) + 2 <= 512) =>
        /\ (pc = "wq_ret" => wres = "Ok")
        /\ JustReturned =>
            /\ qres = "Ok"
            /\ outstr = ToLowerStr(qname)
            /\ pos = wend

\* "Bc.a" written on the fresh buffer reads back as "bc.a"
C8_Witness ==
    /\ caller = "roundtrip"
    /\ JustReturned
    /\ wstart = 0
    /\ qname = <<66, 99, 46, 97>>
    /\ outstr = <<98, 99, 46, 97>>
    /\ qres = "Ok"
    /\ pos = 6
    /\ wend = 6

\* C9: when write_qname returns, for a name whose labels are all of at most
\* 63 bytes and whose encoding fits, it returned Ok and the buffer holds,
\* from where the write began, each label's length byte and bytes and then
\* a zero byte, and nothing else; for a name with a label of 64 bytes or
\* more that the write reached, it returned the label-too-long error and
\* the buffer holds the labels before that one and nothing else.
C9_LabelLimit ==
    (caller = "roundtrip" /\ pc = "wq_ret") =>
        LET k == FirstLong(wlabels)
            whole == WireLabels(wlabels) \o <<0>>
            before == WireLabels(SubSeq(wlabels, 1, k - 1))
        IN  /\ (k = 0 /\ wstart + Len(whole) <= 512) =>
                /\ wres = "Ok"
                /\ wend = wstart + Len(whole)
                /\ buf = BufOf(<< [at |-> wstart, bytes |-> whole] >>)
            /\ (k # 0 /\ wstart + Len(before) <= 512) =>
                /\ wres = "LabelTooLong"
                /\ wend = wstart + Len(before)
                /\ pos = wend
                /\ buf = BufOf(<< [at |-> wstart, bytes |-> before] >>)

\* a label of 63 bytes is written, the label of 64 bytes after it is refused
C9_Witness ==
    /\ caller = "roundtrip"
    /\ pc = "wq_ret"
    /\ wlabels = << Rep(88, 63), Rep(89, 64) >>
    /\ wres = "LabelTooLong"
    /\ wend = wstart + 64
    /\ buf[wstart] = 63
    /\ buf[wend] = 0

\* ------------------------------------------------------------------------
\* Properties of the single operations
\* ------------------------------------------------------------------------

\* C4: get_range(start, len) fails, with the end-of-buffer error, exactly
\* when start + len >= 513; otherwise it returns the bytes at
\* [start, start + len), so also when start + len = 512.
C4_RangeBoundary ==
    lastOp.op = "get_range" =>
        IF lastOp.a + lastOp.b >= 513
        THEN lastOp.res = "EndOfBuffer"
        ELSE /\ lastOp.res = "Ok"
             /\ lastOp.val = BufBytes(lastOp.a, lastOp.a + lastOp.b)

\* C5: while every operation called on the fresh buffer has returned Ok,
\* the shared position is at most 512.
C5_PositionInBuffer == (allOk /\ pc \in {"new", "idle"}) => pos <= 512

====
